---- MODULE Spec2Model ----
(***************************************************************************)
(* Model of the Training Connect synchronisation worker                    *)
(* (src/src/modules/training_connect.py) and of the producers that feed    *)
(* its queue (src/src/api/routers/data.py).                                *)
(*                                                                         *)
(* The worker is one asyncio coroutine (handle_queue); its position is     *)
(* kept in hq (the loop) and stack (the frames of the recursive            *)
(* run_queue_item).  Each action is the code between two suspension        *)
(* points of that coroutine; the answer of the remote portal, of the       *)
(* browser and of the store at that point is an input drawn with \E.       *)
(* The close calls of a teardown (page.close, browser.close) return or     *)
(* raise like any other call of the browser (CloseEnvs).                   *)
(***************************************************************************)
EXTENDS Integers, Sequences, FiniteSets, TLC

VARIABLES tc, lms, portal, redis_list, outbox, obs, hq, stack, budget, probe

vars == <<tc, lms, portal, redis_list, outbox, obs, hq, stack, budget, probe>>

(***************************************************************************)
(* Bounds of the model.                                                    *)
(***************************************************************************)
MaxPush == 2
MaxCand == 2
MaxLoginFaults == 5
MaxPortalFaults == 1
MaxRestarts == 1
MaxRetryFaults == 4

(***************************************************************************)
(* Program constants.                                                      *)
(***************************************************************************)
LoginRetries == 5
ItemRetries == 5
ExcessiveProfiles == 10

Uploader == "op@lms"

(***************************************************************************)
(* Text values.  A string is a sequence of one-character strings, so that  *)
(* the normalisations of check_match are computed, not assumed.            *)
(***************************************************************************)
Digits == {"0", "1", "2", "3", "4", "5", "6", "7", "8", "9"}

RECURSIVE Filter(_, _)
Filter(s, keep) ==
    IF s = <<>> THEN <<>>
    ELSE IF Head(s) \in keep THEN <<Head(s)>> \o Filter(Tail(s), keep)
         ELSE Filter(Tail(s), keep)

RECURSIVE Remove(_, _)
Remove(s, drop) ==
    IF s = <<>> THEN <<>>
    ELSE IF Head(s) \in drop THEN Remove(Tail(s), drop)
         ELSE <<Head(s)>> \o Remove(Tail(s), drop)

RECURSIVE StripZeros(_)
StripZeros(s) ==
    IF Len(s) > 1 /\ Head(s) = "0" THEN StripZeros(Tail(s)) ELSE s

Lower(s) == [i \in 1..Len(s) |-> IF s[i] = "A" THEN "a" ELSE IF s[i] = "B" THEN "b" ELSE s[i]]

NoText == <<>>
NoDate == [fmt |-> "empty", day |-> 0]

\* a date text is its format and its calendar day (days are 1, 2, ...)
ValueError == -1

\* datetime.strptime(value, fmt): the calendar day, or ValueError
strptime(value, fmt) == IF value.fmt = fmt THEN value.day ELSE ValueError

(***************************************************************************)
(* Contact values of the people the batches are about.                     *)
(***************************************************************************)
PhoneOf(p) == IF p = "ann" THEN <<"1", "2">> ELSE <<"2", "1">>
EmailOf(p) == IF p = "ann" THEN <<"a", "@">> ELSE <<"b", "@">>
DobOf(p) == [fmt |-> "Ymd_HMS", day |-> IF p = "ann" THEN 1 ELSE 2]

(***************************************************************************)
(* Upload units.  upload_info is flattened into the unit; bid is the       *)
(* number of the push that carried the unit (an observation, not data).    *)
(***************************************************************************)
\* the keys of a student that create_student requires besides phone_number,
\* in the order of its tests (lines 394-496)
StudentFields == {"height", "eye_color", "gender", "house_number", "street_name",
                  "city", "state", "zipcode"}
RequiredOrder == <<"phone_number", "height", "eye_color", "gender", "house_number",
                   "street_name", "city", "state", "zipcode">>

\* has: the keys of StudentFields that carry a value; dob: the key "dob"
Unit(p, type) ==
    [bid |-> 0, upload_type |-> type, position |-> 1, max |-> 1,
     uploader |-> Uploader, only_lms |-> FALSE,
     person |-> p, user_id |-> "none",
     sstid |-> FALSE, osha_id |-> FALSE, our_student |-> FALSE,
     certificate_id |-> "none",
     phone_number |-> PhoneOf(p), email |-> EmailOf(p), date_of_birth |-> NoDate,
     has |-> StudentFields, dob |-> NoDate, file_name |-> FALSE]

\* one row of an imported certificate sheet
CertRow(p, c, sst, osha, ours) ==
    [Unit(p, "certificate") EXCEPT !.certificate_id = c, !.sstid = sst,
        !.osha_id = osha, !.our_student = ours, !.date_of_birth = DobOf(p),
        !.file_name = TRUE]

\* one student of an import_students request
Student(p, complete, failed) ==
    [unit |-> [Unit(p, "student") EXCEPT !.user_id = p, !.dob = DobOf(p),
                                         !.has = IF complete THEN StudentFields
                                                 ELSE StudentFields \ {"zipcode"},
                                         !.file_name = TRUE],
     failed |-> failed]

\* the requests the producers receive
CertUploads ==
    { [sheet |-> <<CertRow("bob", "c2", FALSE, FALSE, FALSE),
                   CertRow("ann", "c1", FALSE, FALSE, TRUE)>>, onlyLMS |-> FALSE],
      [sheet |-> <<CertRow("ann", "c1", TRUE, TRUE, FALSE)>>, onlyLMS |-> FALSE],
      [sheet |-> <<CertRow("ann", "c1", FALSE, FALSE, FALSE)>>, onlyLMS |-> TRUE] }

StudentUploads ==
    { [students |-> <<Student("ann", TRUE, FALSE), Student("bob", FALSE, FALSE)>>,
       uploadType |-> "student"],
      [students |-> <<Student("ann", TRUE, FALSE), Student("bob", TRUE, TRUE)>>,
       uploadType |-> "upload_user"] }

RECURSIVE SelectSeq2(_, _)
SelectSeq2(s, keep) ==
    IF s = <<>> THEN <<>>
    ELSE IF keep[1] THEN <<Head(s)>> \o SelectSeq2(Tail(s), Tail(keep))
         ELSE SelectSeq2(Tail(s), Tail(keep))

\* data.py import_certificates: position idx + 1, max len(json_data)
import_certificates(sheet, onlyLMS, bid) ==
    [i \in 1..Len(sheet) |->
        [sheet[i] EXCEPT !.bid = bid, !.position = i, !.max = Len(sheet),
                         !.only_lms = onlyLMS]]

\* data.py import_students_upload: rows marked failed are skipped, the
\* others keep position idx + 1 and max len(content.students)
import_students_upload(students, uploadType, bid) ==
    LET all == [i \in 1..Len(students) |->
                  [students[i].unit EXCEPT !.bid = bid, !.position = i,
                       !.max = Len(students), !.upload_type = uploadType]]
        keep == [i \in 1..Len(students) |-> ~students[i].failed]
    IN  SelectSeq2(all, keep)

\* training_connect.py redis_publish: a single-unit student batch
redis_publish_batch(p, bid) ==
    << [Unit(p, "student") EXCEPT !.bid = bid, !.user_id = p, !.has = {}] >>

(***************************************************************************)
(* The state the handlers change, as one record w:                         *)
(*   tc         the TrainingConnect object (__init__)                      *)
(*   lms        the local database: user rows, certificate rows            *)
(*   portal     what has been changed on the remote portal                 *)
(*   redis_list the list "training_connect" of the store                   *)
(*   outbox     the emails sent since the current batch was popped         *)
(*   obs        observations kept for the properties                       *)
(***************************************************************************)
World == [tc |-> tc, lms |-> lms, portal |-> portal, redis_list |-> redis_list,
          outbox |-> outbox, obs |-> obs]

SetWorld(w) ==
    /\ tc' = w.tc
    /\ lms' = w.lms
    /\ portal' = w.portal
    /\ redis_list' = w.redis_list
    /\ outbox' = w.outbox
    /\ obs' = w.obs

\* a handler's result: the state it leaves and the exception it raises
Ok(w) == [w |-> w, exc |-> "none"]
Raise(w, e) == [w |-> w, exc |-> e]

system_error(w, reason) ==
    [w EXCEPT !.tc.system_errors = Append(@, reason)]

send_email(w, kind, to, failed) ==
    [w EXCEPT !.outbox = Append(@, [kind |-> kind, to |-> to, failed |-> failed,
                                    errors |-> <<>>])]

\* observation: an action executor has started for the current unit
Executed(w) == [w EXCEPT !.obs.execs = @ + 1]

\* a delete whose statement matches no row
delete_nothing(db, certificate_number) == db

\* user_functions.py delete_user_certificates
delete_user_certificates(db, certificate_number) ==
    [db EXCEPT !.certs = {c \in @ : c.number # certificate_number}]

\* user_functions.py delete_users: a user that is not found is skipped
delete_users(db, user_id) ==
    IF user_id \notin db.users THEN db
    ELSE [db EXCEPT !.users = @ \ {user_id},
                    !.certs = {c \in @ : c.user # user_id}]

\* add_failed reading failed_user["user_id"] for every upload type: the
\* KeyError of a unit without a user identifier ends the call before the append
add_failed_keyed(w, failed_user, reason, upload_type) ==
    LET db1 == IF upload_type = "certificate"
               THEN delete_user_certificates(w.lms, failed_user.certificate_id)
               ELSE w.lms
    IN  IF failed_user.user_id = "none" THEN [w EXCEPT !.lms = db1]
        ELSE [w EXCEPT !.lms = delete_users(db1, failed_user.user_id),
                       !.tc.users = Append(@, [bid |-> failed_user.bid,
                                               position |-> failed_user.position,
                                               reason |-> reason])]

\* training_connect.py add_failed
add_failed(w, failed_user, reason, upload_type) ==
    LET db1 == IF upload_type = "certificate"
               THEN delete_user_certificates(w.lms, failed_user.certificate_id)
               ELSE w.lms
        db2 == IF upload_type = "student"
               THEN delete_users(db1, failed_user.user_id)
               ELSE db1
    IN  [w EXCEPT !.lms = db2,
                  !.tc.users = Append(@, [bid |-> failed_user.bid,
                                          position |-> failed_user.position,
                                          reason |-> reason])]

(***************************************************************************)
(* What the portal, the browser and the database answer to one executor.   *)
(*   nav     goto_user_profile in update_user                              *)
(*   link    the profile shows "Add To Course Provider"                    *)
(*   save    the database on save_user_certificate / update_user           *)
(*   remote  the certificate form of add_certificate                       *)
(*   create  the student form of create_student                            *)
(***************************************************************************)
ExcClasses == {"TimeoutError", "NetworkError", "Error"}

ExOk == [nav |-> "ok", link |-> FALSE, save |-> "ok", remote |-> "ok", create |-> "created"]

ExecEnvs ==
    { ExOk,
      [ExOk EXCEPT !.link = TRUE],
      [ExOk EXCEPT !.nav = "TimeoutError"],
      [ExOk EXCEPT !.nav = "Error"],
      [ExOk EXCEPT !.save = "error", !.create = "dangers"],
      [ExOk EXCEPT !.remote = "raise", !.create = "raise"],
      [ExOk EXCEPT !.remote = "gen_fail", !.create = "state_invalid"] }

\* a create_student that tests phone_number and height only
missing_field_short(user) ==
    IF user.phone_number = NoText THEN "phone_number"
    ELSE IF "height" \notin user.has THEN "height"
    ELSE "none"

\* create_student, lines 394-496: the first required key without a value
missing_field(user) ==
    LET absent(k) == IF RequiredOrder[k] = "phone_number"
                     THEN user.phone_number = NoText
                     ELSE RequiredOrder[k] \notin user.has
        first(K) == IF K = {} THEN "none"
                    ELSE RequiredOrder[CHOOSE k \in K : \A j \in K : k <= j]
    IN  first({k \in 1..Len(RequiredOrder) : absent(k)})

\* training_connect.py create_student; the reason of a missing key is the
\* name of the key
create_student(w, user, upload_type, ex) ==
    IF ~w.tc.page THEN w
    ELSE LET w1 == Executed(w)
             remote(w2) ==
                 CASE ex.create = "created" ->
                        [w2 EXCEPT !.portal.students = @ \cup {user.person}]
                   [] ex.create = "state_invalid" ->
                        add_failed(w2, user, "issue with the state", upload_type)
                   [] ex.create = "dangers" ->
                        add_failed(w2, user, "platform-specific errors", upload_type)
                   [] OTHER ->
                        add_failed(system_error(w2, "Failed to create student"), user,
                                   "error creating the user profile", upload_type)
         IN  IF missing_field(user) # "none"
             THEN add_failed(w1, user, missing_field(user), upload_type)
             ELSE IF /\ strptime(user.dob, "Ymd_HMS") = ValueError
                     /\ strptime(user.dob, "mdY_slash") = ValueError
             THEN add_failed(w1, user, "issue converting the date of birth",
                             upload_type)
             ELSE remote([w1 EXCEPT !.obs.remote = @ + 1])

\* training_connect.py validate_certificate_user: the keys it requires
validate_certificate_user(user) ==
    /\ user.certificate_id # "none"
    /\ user.phone_number # NoText
    /\ user.email # NoText

\* certificate_generation.py tc_save_certificate, with get_or_create_user,
\* redis_publish and save_user_certificate.  Result: the state and the
\* status, reason and system keys of the returned dict.
tc_save_certificate(w, user, ex) ==
    LET found == user.person \in w.lms.users
        w1 == IF found THEN w
              ELSE [w EXCEPT !.lms.users = @ \cup {user.person},
                             !.obs.bids = @ + 1,
                             !.redis_list = Append(@,
                                 [bid |-> w.obs.bids + 1,
                                  units |-> redis_publish_batch(user.person,
                                                                w.obs.bids + 1)])]
    IN  IF ex.save = "error"
        THEN [w |-> w1, status |-> FALSE,
              reason |-> "error saving certificate", system |-> TRUE]
        ELSE IF \E c \in w1.lms.certs : c.number = user.certificate_id
        THEN [w |-> w1, status |-> FALSE,
              reason |-> "Certificate Number already in use", system |-> FALSE]
        ELSE [w |-> [w1 EXCEPT !.lms.certs = @ \cup
                        {[number |-> user.certificate_id, user |-> user.person]}],
              status |-> TRUE, reason |-> "", system |-> FALSE]

\* training_connect.py add_certificate
add_certificate(w, user_input, upload_type, only_lms, ex) ==
    IF ~w.tc.page THEN w
    ELSE LET w1 == Executed(w) IN
         IF ~validate_certificate_user(user_input)
         THEN add_failed(w1, user_input, "User is missing a key", upload_type)
         ELSE LET saved == tc_save_certificate(w1, user_input, ex)
                  w2 == IF saved.status
                        THEN [saved.w EXCEPT !.obs.add_cert = [saved |-> "ok", remote |-> 0, reason |-> ""]]
                        ELSE LET f == add_failed(
                                         [saved.w EXCEPT !.obs.add_cert =
                                              [saved |-> "failed", remote |-> 0, reason |-> saved.reason]],
                                         user_input, saved.reason, upload_type)
                             IN  IF saved.system
                                 THEN system_error(f, "Failed to save certificate")
                                 ELSE f
              IN  IF only_lms THEN w2
                  ELSE CASE ex.remote = "ok" ->
                              [w2 EXCEPT !.portal.certs = @ \cup {user_input.certificate_id},
                                         !.obs.remote = @ + 1,
                                         !.obs.add_cert.remote = @ + 1]
                         [] ex.remote = "gen_fail" ->
                              system_error(
                                  add_failed([w2 EXCEPT !.obs.remote = @ + 1,
                                                        !.obs.add_cert.remote = @ + 1],
                                      user_input,
                                      "error generating the certificate", upload_type),
                                  "Failed to generate certificate")
                         [] OTHER ->
                              add_failed(
                                  system_error([w2 EXCEPT !.obs.remote = @ + 1,
                                                          !.obs.add_cert.remote = @ + 1],
                                               "Failed to add certificate"),
                                  user_input, "error generating the user's certificate",
                                  upload_type)

\* training_connect.py update_user (with goto_user_profile and
\* add_to_course_provider)
update_user(w, user, upload_type, only_lms, ex) ==
    IF ~w.tc.page THEN Ok(w)
    ELSE IF ex.nav # "ok" THEN Raise(w, ex.nav)
    ELSE LET w1 == IF ex.link
                   THEN [w EXCEPT !.portal.provider = @ \cup {user.person},
                                  !.obs.remote = @ + 1]
                   ELSE w
         IN  Ok(add_certificate(w1, user, upload_type, only_lms, ex))

\* training_connect.py run_database_update
run_database_update(w, user, ex) ==
    IF ~w.tc.page THEN w
    ELSE LET w1 == [Executed(w) EXCEPT !.tc.match_user_url = TRUE] IN
         IF ex.save = "ok" THEN [w1 EXCEPT !.lms.updated = @ \cup {user.user_id}]
         ELSE system_error(send_email(w1, "expedited", w1.tc.email,
                                      <<[bid |-> user.bid, position |-> user.position,
                                         reason |-> "database update failed"]>>),
                           "An error occurred while running database update")

(***************************************************************************)
(* check_match: the comparison of one remote profile with the unit.        *)
(* A profile is what the profile page shows: load is "ok" or the exception *)
(* raised while opening it, phone / email / birth the texts of the fields  *)
(* 5, 6 and 7.                                                             *)
(***************************************************************************)
PhoneNoise == {"-", " ", "(", ")"}

\* lines 1110-1122; ValueError when int() gets no digit
phone_matches(user, field_value) ==
    IF user.phone_number = NoText THEN 0
    ELSE LET digits == Filter(user.phone_number, Digits) IN
         IF digits = <<>> THEN ValueError
         ELSE IF Remove(field_value, PhoneNoise) = StripZeros(digits) THEN 1 ELSE 0

\* lines 1124-1129
email_matches(user, field_value) ==
    IF user.email = NoText THEN 0
    ELSE IF Lower(field_value) = Lower(user.email) THEN 1 ELSE 0

\* lines 1131-1153; ValueError when a strptime fails
birth_matches(user, field_value) ==
    IF user.date_of_birth = NoDate THEN 0
    ELSE LET birth_date == strptime(field_value, "mdY_slash")
             first == strptime(user.date_of_birth, "Ymd_HMS")
             user_birth_date == IF first # ValueError THEN first
                                ELSE strptime(user.date_of_birth, "mdY_slash")
         IN  IF birth_date = ValueError \/ user_birth_date = ValueError THEN ValueError
             ELSE IF birth_date = user_birth_date THEN 1 ELSE 0

\* the loop of lines 1099-1177: the number of matches, or ValueError when
\* a comparison raised; the loop stops once two fields matched
count_matches(user, prof) ==
    LET ph == phone_matches(user, prof.phone)
        em == email_matches(user, prof.email)
        bi == birth_matches(user, prof.birth)
    IN  IF ph = ValueError THEN ValueError
        ELSE IF ph + em >= 2 THEN ph + em
        ELSE IF bi = ValueError THEN ValueError
        ELSE ph + em + bi

\* lines 1183-1237: the accepted profile is handed to the executor
accept_match(w, user, upload_type, only_lms, ex) ==
    LET matched(w1) ==
            IF upload_type = "update_user" THEN run_database_update(w1, user, ex)
            ELSE w1
        updated(w2) ==
            IF upload_type = "certificate"
            THEN update_user(w2, user, upload_type, only_lms, ex)
            ELSE Ok(w2)
        existing(r3) ==
            IF r3.exc # "none" THEN r3
            ELSE IF upload_type \in {"student", "upload_user"}
            THEN Ok(add_failed(r3.w, user, "user already exists", upload_type))
            ELSE r3
    IN  existing(updated(matched([w EXCEPT !.tc.match_user_url = TRUE])))

check_match(w, user, prof, amount, index, upload_type, only_lms, ex) ==
    IF ~w.tc.page THEN Ok(w)
    ELSE IF prof.load # "ok" THEN Raise(w, prof.load)
    ELSE LET matches == count_matches(user, prof) IN
         IF matches = ValueError
         THEN Ok(add_failed(system_error(w, "Failed to check matches for user."),
                            user, "error during the profile matching", upload_type))
         ELSE IF matches >= 2 THEN accept_match(w, user, upload_type, only_lms, ex)
         ELSE IF amount = 1 /\ matches >= 1
         THEN accept_match(w, user, upload_type, only_lms, ex)
         ELSE IF index = amount - 1 /\ ~w.tc.match_user_url
                 /\ upload_type = "certificate"
         THEN Ok(add_failed(w, user, "fields did not match", upload_type))
         ELSE Ok(w)

(***************************************************************************)
(* Initial state: the object after __init__, an empty list in the store,   *)
(* a local database that knows ann, nothing changed on the portal.         *)
(***************************************************************************)
\* Observations (they influence nothing):
\*   bids       the number of batches pushed so far; a batch's id is its rank
\*   in_flight  the batches popped and not yet finished; done: finished
\*   started    the positions of the units of the batch in flight that were
\*              handed to run_queue_item
\*   execs      executors started for the unit in progress; attempts: calls
\*              of run_queue_item for it below the ceiling; remote: changes
\*              made on the portal for it
\*   cbl        the last call of create_browser_and_login: its attempts,
\*              its sleeps, the errors it recorded, whether a login
\*              succeeded, its result, page and logged_in when it returned
\*   exhausted  create_browser_and_login returned False in this batch
\*   accepted   a candidate of the current search by name was accepted
\*   nomatch    the last no-match handling after a search by name: whether
\*              a candidate had been accepted, whether create_student was
\*              invoked, whether the failure was recorded, execs after it
\*   unhanded   the units of the last batch whose run_queue_task ended that
\*              were never handed to run_queue_item
\*   checked    the largest number of candidates of a search for the unit in
\*              progress on one of which check_match was invoked
\*   add_cert   the last call of add_certificate that passed the validation:
\*              how its local save ended, and the number of its interactions
\*              with the portal
\*   certs_before  the local certificate rows when the unit in progress was
\*              handed to run_queue_item
\*   kept       the local certificate rows stored by certificate units of
\*              finished batches for which no failure was recorded
NoAddCert == [saved |-> "none", remote |-> 0, reason |-> ""]
NoNoMatch == [state |-> "none", accepted |-> FALSE, created |-> FALSE,
              recorded |-> FALSE, execs |-> 0]
NoCbl == [attempts |-> 0, sleeps |-> 0, errors |-> 0, authenticated |-> FALSE,
          page |-> FALSE, logged_in |-> FALSE,
          result |-> "none"]

\* the users the local database holds when the process starts
LmsUsers == {"ann"}

InitTc == [page |-> FALSE, browser |-> FALSE, logged_in |-> FALSE,
           match_user_url |-> FALSE, email |-> "", users |-> <<>>,
           queue_running |-> FALSE, queue_lock |-> FALSE, system_errors |-> <<>>]

InitObs == [bids |-> 0, in_flight |-> {}, done |-> {}, started |-> <<>>,
            execs |-> 0, attempts |-> 0, remote |-> 0, cbl |-> NoCbl,
            exhausted |-> FALSE, accepted |-> FALSE, nomatch |-> NoNoMatch,
            unhanded |-> 0, checked |-> 0, add_cert |-> NoAddCert,
            certs_before |-> {}, kept |-> {}]

Idle == [pc |-> "sleep", uploads |-> <<>>, bid |-> 0, i |-> 0]

NoProbe == [state |-> "off"]

\* what one behaviour may contain: uploads through the API, failed
\* launch-or-login attempts, failures of the portal or the database
Scenarios ==
    { [pushes |-> MaxPush, login |-> 0, portal |-> 0, restarts |-> 0, kinds |-> "any"],
      [pushes |-> 1, login |-> MaxLoginFaults, portal |-> 0, restarts |-> 0,
       kinds |-> "any"],
      [pushes |-> 1, login |-> 0, portal |-> MaxPortalFaults, restarts |-> 0,
       kinds |-> "any"] }

\* training_connect.py start_queue: when the store cannot be reached the
\* fatal error is recorded, the records are sent as one alert and cleared
start_queue(w, connected) ==
    IF connected THEN w
    ELSE LET flush(w1) ==
                 [w1 EXCEPT !.outbox = Append(@, [kind |-> "internal_alert",
                                                  to |-> "engineering",
                                                  failed |-> <<>>,
                                                  errors |-> w1.tc.system_errors]),
                            !.tc.system_errors = <<>>]
         IN  flush(system_error(w, "Fatal error connecting to redis"))

InitWith(b) ==
    /\ \E connected \in BOOLEAN :
           LET started(w) == tc = w.tc /\ outbox = w.outbox
           IN  started(start_queue([tc |-> InitTc, outbox |-> <<>>], connected))
    /\ lms = [users |-> LmsUsers, certs |-> {}, updated |-> {}]
    /\ portal = [students |-> {}, certs |-> {}, provider |-> {}]
    /\ redis_list = <<>>
    /\ obs = InitObs
    /\ hq = Idle
    /\ stack = <<>>
    /\ budget = b
    /\ probe = NoProbe

Init == \E b \in Scenarios : InitWith(b)

(***************************************************************************)
(* Producers: the API routes that push a batch (redis_rpush).              *)
(***************************************************************************)
redis_rpush(w, units) ==
    [w EXCEPT !.obs.bids = @ + 1,
              !.redis_list = Append(@, [bid |-> w.obs.bids + 1, units |-> units])]

ImportCertificates ==
    /\ budget.pushes > 0
    /\ \E req \in CertUploads :
          SetWorld(redis_rpush(World,
                      import_certificates(req.sheet, req.onlyLMS, obs.bids + 1)))
    /\ budget' = [budget EXCEPT !.pushes = @ - 1]
    /\ UNCHANGED <<hq, stack, probe>>

ImportStudents ==
    /\ budget.pushes > 0
    /\ \E req \in StudentUploads :
          SetWorld(redis_rpush(World,
                      import_students_upload(req.students, req.uploadType,
                                             obs.bids + 1)))
    /\ budget' = [budget EXCEPT !.pushes = @ - 1]
    /\ UNCHANGED <<hq, stack, probe>>

(***************************************************************************)
(* The worker.  hq is the position of handle_queue:                        *)
(*   "sleep"  in asyncio.sleep(1), no batch held                           *)
(*   "task"   inside run_queue_task(uploads), unit i next or in progress   *)
(*   "dead"   an exception left handle_queue: its task has ended           *)
(* stack holds the frames of run_queue_item for the unit in progress, the  *)
(* innermost last.  A frame's pc is the place where it continues.          *)
(***************************************************************************)
Frame(retries) ==
    [retries |-> retries, pc |-> "enter", cbl_retries |-> 0, lk_retries |-> 0,
     amount |-> 0, index |-> 0]

Top == stack[Len(stack)]
user_json == hq.uploads[hq.i]
Running(pc) == hq.pc = "task" /\ stack # <<>> /\ Top.pc = pc

SetTop(f) == stack' = [stack EXCEPT ![Len(stack)] = f]
\* the innermost call returns: its caller continues, or the unit is done
Return ==
    /\ stack' = SubSeq(stack, 1, Len(stack) - 1)
    /\ hq' = IF Len(stack) = 1 THEN [hq EXCEPT !.i = @ + 1] ELSE hq
\* the innermost call continues at pc after calling run_queue_item again
Recurse(pc) ==
    stack' = Append([stack EXCEPT ![Len(stack)].pc = pc], Frame(Top.retries + 1))

\* An exception leaves the innermost call of run_queue_item.  A caller that
\* made its call inside the first try block (line 1768, it waits at
\* "lookup") catches it and returns (lines 1770-1775); a caller that made
\* its call in the except block (line 1799, it waits at "final") lets it
\* pass.  From the outermost call it leaves run_queue_task and handle_queue:
\* the lock is released, queue_running stays set, and the task has ended.
Catcher(callers) ==
    LET waiting == {j \in 1..Len(callers) : callers[j].pc = "lookup"} IN
    IF waiting = {} THEN 0 ELSE CHOOSE j \in waiting : \A k \in waiting : k <= j

Propagate(w) ==
    LET j == Catcher(SubSeq(stack, 1, Len(stack) - 1)) IN
    IF j > 0
    THEN /\ SetWorld([w EXCEPT !.tc.system_errors = Append(@, "Failed to load user json")])
         /\ stack' = SubSeq(stack, 1, j - 1)
         /\ hq' = IF j = 1 THEN [hq EXCEPT !.i = @ + 1] ELSE hq
    ELSE /\ SetWorld([w EXCEPT
                 !.tc.queue_lock = FALSE,
                 !.obs.in_flight = @ \ {hq.bid},
                 !.obs.done = IF Len(w.obs.started) = Len(hq.uploads)
                              THEN @ \cup {hq.bid} ELSE @,
                 !.obs.unhanded = Len(hq.uploads) - Len(w.obs.started)])
         /\ stack' = <<>>
         /\ hq' = [hq EXCEPT !.pc = "dead"]

\* a pop from the right end of the list (RPOP)
redis_rpop(list, connected) ==
    IF connected /\ list # <<>>
    THEN [uploads |-> <<list[Len(list)]>>, list |-> SubSeq(list, 1, Len(list) - 1)]
    ELSE [uploads |-> <<>>, list |-> list]

\* redis_lpop: None when the store cannot be reached or the list is empty
redis_lpop(list, connected) ==
    IF connected /\ list # <<>> THEN [uploads |-> <<Head(list)>>, list |-> Tail(list)]
    ELSE [uploads |-> <<>>, list |-> list]

\* a handle_queue without the flag: every poll cycle pops
handle_queue_reentrant(connected) ==
    LET got == redis_lpop(redis_list, connected) IN
    /\ got.uploads # <<>>
    /\ redis_list' = got.list
    /\ tc' = tc
    /\ hq' = [pc |-> "task", uploads |-> got.uploads[1].units,
              bid |-> got.uploads[1].bid, i |-> 1]
    /\ obs' = [obs EXCEPT !.in_flight = @ \cup {got.uploads[1].bid}, !.started = <<>>,
                          !.exhausted = FALSE]
    /\ outbox' = <<>>
    /\ stack' = <<>>
    /\ UNCHANGED <<lms, portal, budget, probe>>

\* handle_queue, lines 1905-1917: one poll that finds a batch
handle_queue_poll(connected) ==
    LET got == redis_lpop(redis_list, connected) IN
    /\ hq.pc = "sleep"
    /\ ~tc.queue_running
    /\ ~tc.queue_lock
    /\ got.uploads # <<>>
    /\ redis_list' = got.list
    /\ tc' = [tc EXCEPT !.queue_running = TRUE, !.queue_lock = TRUE]
    /\ hq' = [pc |-> "task", uploads |-> got.uploads[1].units,
              bid |-> got.uploads[1].bid, i |-> 1]
    /\ obs' = [obs EXCEPT !.in_flight = @ \cup {got.uploads[1].bid}, !.started = <<>>,
                          !.exhausted = FALSE]
    /\ outbox' = <<>>
    /\ UNCHANGED <<lms, portal, stack, budget, probe>>

HandleQueuePoll == \E connected \in BOOLEAN : handle_queue_poll(connected)

\* run_queue_task, lines 1894-1895: the next unit is handed to run_queue_item
run_queue_task_item ==
    /\ hq.pc = "task"
    /\ stack = <<>>
    /\ hq.i <= Len(hq.uploads)
    /\ stack' = <<Frame(1)>>
    /\ obs' = [obs EXCEPT !.started = Append(@, user_json.position),
                          !.execs = 0, !.attempts = 0, !.remote = 0,
                          !.accepted = FALSE, !.nomatch = NoNoMatch, !.checked = 0,
                          !.add_cert = NoAddCert, !.certs_before = lms.certs]
    /\ UNCHANGED <<tc, lms, portal, redis_list, outbox, hq, budget, probe>>

\* observation: the certificate rows of the units of the batch in progress
\* that appear in no failure record and in no failure list of an email
Kept ==
    LET failed == { r.position : r \in
                      { tc.users[k] : k \in 1..Len(tc.users) } \cup
                      UNION { { outbox[m].failed[k] : k \in 1..Len(outbox[m].failed) } :
                              m \in 1..Len(outbox) } }
    IN  { c \in lms.certs :
            \E i \in 1..Len(hq.uploads) :
                /\ hq.uploads[i].upload_type = "certificate"
                /\ hq.uploads[i].certificate_id = c.number
                /\ hq.uploads[i].person = c.user
                /\ hq.uploads[i].position \notin failed }

\* a run_queue_task that sends the alert and keeps the records
run_queue_task_unflushed ==
    /\ hq.pc = "task"
    /\ stack = <<>>
    /\ hq.i > Len(hq.uploads)
    /\ outbox' = IF tc.system_errors # <<>>
                 THEN Append(outbox, [kind |-> "internal_alert", to |-> "engineering",
                                      failed |-> <<>>, errors |-> tc.system_errors])
                 ELSE outbox
    /\ tc' = [tc EXCEPT !.queue_running = FALSE, !.queue_lock = FALSE]
    /\ obs' = [obs EXCEPT !.in_flight = @ \ {hq.bid}, !.done = @ \cup {hq.bid},
                          !.unhanded = Len(hq.uploads) - Len(obs.started),
                          !.kept = @ \cup Kept]
    /\ hq' = Idle
    /\ UNCHANGED <<lms, portal, redis_list, stack, budget, probe>>

\* run_queue_task, lines 1897-1901, and handle_queue, line 1919
run_queue_task_done ==
    /\ hq.pc = "task"
    /\ stack = <<>>
    /\ hq.i > Len(hq.uploads)
    /\ outbox' = IF tc.system_errors # <<>>
                 THEN Append(outbox, [kind |-> "internal_alert", to |-> "engineering",
                                      failed |-> <<>>, errors |-> tc.system_errors])
                 ELSE outbox
    /\ tc' = [tc EXCEPT !.system_errors = <<>>, !.queue_running = FALSE,
                        !.queue_lock = FALSE]
    /\ obs' = [obs EXCEPT !.in_flight = @ \ {hq.bid}, !.done = @ \cup {hq.bid},
                          !.unhanded = Len(hq.uploads) - Len(obs.started),
                          !.kept = @ \cup Kept]
    /\ hq' = Idle
    /\ UNCHANGED <<lms, portal, redis_list, stack, budget, probe>>

(***************************************************************************)
(* run_queue_item                                                          *)
(***************************************************************************)
\* lines 1726-1763
run_queue_item_enter ==
    /\ Running("enter")
    /\ IF Top.retries >= ItemRetries
       THEN /\ SetWorld(add_failed(system_error(World, "Failed to load user json"),
                           user_json, "Multiple attempts unsuccessful",
                           user_json.upload_type))
            /\ Return
       ELSE /\ tc' = [tc EXCEPT !.email = IF user_json.position = 1
                                          THEN user_json.uploader ELSE @]
            /\ obs' = [obs EXCEPT !.attempts = @ + 1,
                                  !.cbl = IF tc.logged_in THEN @ ELSE NoCbl]
            /\ SetTop([Top EXCEPT !.pc = IF tc.logged_in THEN "lookup" ELSE "cbl",
                                  !.cbl_retries = 0])
            /\ UNCHANGED <<lms, portal, redis_list, outbox, hq>>
    /\ UNCHANGED <<budget, probe>>

\* what one launch-and-login attempt meets
AttemptEnvs == {"launch_raises", "newPage_raises", "login_raises", "login_False",
                "login_True"}

\* login: whether it sets logged_in
login(t, o) == [t EXCEPT !.logged_in = (o = "login_True")]

\* create_browser_and_login, lines 1692-1723: one attempt
create_browser_and_login(t, o) ==
    LET t0 == [t EXCEPT !.page = FALSE, !.browser = FALSE, !.logged_in = FALSE]
        t1 == [t0 EXCEPT !.browser = (o # "launch_raises")]
        t2 == [t1 EXCEPT !.page = (o \notin {"launch_raises", "newPage_raises"})]
    IN  IF o \in {"login_True", "login_False"} THEN login(t2, o) ELSE t2

\* whether the attempt ends create_browser_and_login with True
attempt_returns(o) == o \in {"login_True", "login_False"}

\* page.close() and browser.close() of lines 1692-1696, 1789-1793 and
\* 1871-1874: called when there is a page or a browser; they return, or one
\* of them raises (the browser is gone), which is one more failure of the
\* portal
CloseEnvs(t, spent) ==
    {"closed"} \cup (IF (t.page \/ t.browser) /\ budget.portal > spent
                         /\ budget.kinds = "any"
                     THEN {"NetworkError"} ELSE {})

\* create_browser_and_login called from run_queue_item, lines 1765-1767; an
\* exception of the close calls before the try block of
\* create_browser_and_login is caught at line 1770
run_queue_item_login ==
    /\ Running("cbl")
    /\ IF Top.cbl_retries >= LoginRetries
       THEN /\ tc' = [tc EXCEPT !.system_errors =
                          Append(@, "Failed to log in to training connect")]
            /\ obs' = [obs EXCEPT !.cbl.result = "False", !.cbl.errors = @ + 1,
                                  !.cbl.page = tc.page, !.cbl.logged_in = tc.logged_in,
                                  !.exhausted = TRUE]
            /\ Recurse("lookup")
            /\ UNCHANGED <<hq, budget>>
       ELSE \E o \in AttemptEnvs, closed \in CloseEnvs(tc, 0) :
            IF closed # "closed"
            THEN /\ tc' = [tc EXCEPT !.system_errors =
                                         Append(@, "Failed to load user json")]
                 /\ budget' = [budget EXCEPT !.portal = @ - 1]
                 /\ Return
                 /\ obs' = obs
            ELSE
            /\ hq' = hq
            /\ o = "login_True" \/ budget.login > 0
            /\ budget' = IF o = "login_True" THEN budget
                         ELSE [budget EXCEPT !.login = @ - 1]
            /\ tc' = create_browser_and_login(tc, o)
            /\ obs' = [obs EXCEPT
                          !.cbl.attempts = @ + 1,
                          !.cbl.authenticated = @ \/ (o = "login_True"),
                          !.cbl.sleeps = IF attempt_returns(o) THEN @ ELSE @ + 1,
                          !.cbl.result = IF attempt_returns(o) THEN "True" ELSE @,
                          !.cbl.page = create_browser_and_login(tc, o).page,
                          !.cbl.logged_in = create_browser_and_login(tc, o).logged_in]
            /\ SetTop(IF attempt_returns(o) THEN [Top EXCEPT !.pc = "lookup"]
                      ELSE [Top EXCEPT !.cbl_retries = @ + 1])
    /\ UNCHANGED <<lms, portal, redis_list, outbox, probe>>

(***************************************************************************)
(* do_lookup.  Each step returns the state it leaves and the frame with    *)
(* the place where run_queue_item continues; the places "return" (do_lookup*)
(* returned early), "end" (line 1678) and "raise" (an exception left       *)
(* do_lookup) are resolved by Resume.                                      *)
(***************************************************************************)
StudentTypes == {"student", "upload_user"}

\* the condition of line 1304: the search by name is made
name_search_made(user) ==
    \/ user.upload_type \in {"student", "update_user", "upload_user"}
    \/ (~user.osha_id /\ ~user.sstid /\ ~user.our_student)

\* the local variable reason is assigned only at line 1312
reason_bound(user) == name_search_made(user)

after_osha(user) == IF user.our_student THEN "our" ELSE "end"
after_sstid(user) == IF user.osha_id THEN "osha" ELSE after_osha(user)
after_name(user) == IF user.sstid THEN "sstid" ELSE after_sstid(user)

Step(w, f, pc) == [w |-> w, f |-> [f EXCEPT !.pc = pc]]

\* lines 1267-1311 (the units pushed by the producers carry both names)
do_lookup_start(w, user, f) ==
    IF ~w.tc.page THEN Step(w, f, "return")
    ELSE IF name_search_made(user) THEN Step(w, f, "name")
    ELSE Step(w, f, after_name(user))

\* what a search page answers: an exception, or n result rows
SearchEnvs ==
    {[exc |-> e, n |-> 0] : e \in ExcClasses}
        \cup {[exc |-> "none", n |-> k] : k \in (0..MaxCand) \cup {ExcessiveProfiles}}

\* the except clauses of the name search, lines 1401-1439
name_except(w, user, exc) ==
    IF exc = "TimeoutError"
    THEN system_error(w, "Failed to create student or upload certificate")
    ELSE add_failed(system_error(w, "An exception occurred while doing lookup"),
                    user, "The specific issue could not be determined",
                    user.upload_type)

\* lines 1313-1356
name_search(w, user, f, found) ==
    IF found.exc # "none"
    THEN Step(name_except(w, user, found.exc), f, after_name(user))
    ELSE IF found.n >= ExcessiveProfiles
    THEN Step(add_failed(w, user, "excessive user profiles", user.upload_type),
              f, "return")
    ELSE Step(w, [f EXCEPT !.amount = found.n, !.index = 0],
              IF found.n = 0 THEN "name_nomatch" ELSE "name_cand")

\* lines 1358-1368: one turn of the loop over view_buttons
name_candidate(w, user, f, prof, ex) ==
    LET turn(r) ==
            IF r.exc # "none"
            THEN Step(name_except(r.w, user, r.exc), f, after_name(user))
            ELSE Step(r.w, [f EXCEPT !.index = @ + 1],
                      IF f.index + 1 = f.amount THEN "name_nomatch" ELSE "name_cand")
    IN  turn(IF w.tc.match_user_url THEN Ok(w)
             ELSE check_match(w, user, prof, f.amount, f.index, user.upload_type,
                              user.only_lms, ex))

\* lines 1370-1399
name_nomatch(w, user, f, ex) ==
    IF user.upload_type \in StudentTypes /\ ~w.tc.match_user_url
    THEN Step(create_student(w, user, user.upload_type, ex), f, "return")
    ELSE IF ~w.tc.match_user_url
    THEN Step(add_failed(w, user, "No corresponding user information",
                         user.upload_type), f, after_name(user))
    ELSE Step(w, f, after_name(user))

\* the except clauses of the card ID and OSHA ID searches
id_except(w, user, f, exc, next) ==
    IF exc = "TimeoutError"
    THEN Step(add_failed(w, user, "A lookup error occurred", user.upload_type), f, next)
    ELSE LET w1 == system_error(w, "An exception occurred while doing lookup") IN
         IF reason_bound(user)
         THEN Step(add_failed(w1, user, "A lookup error occurred", user.upload_type),
                   f, next)
         ELSE Step(w1, f, "raise")

\* lines 1441-1502 (card ID) and 1504-1565 (OSHA ID)
id_lookup(w, user, f, exc, ex, next) ==
    IF exc # "none" THEN id_except(w, user, f, exc, next)
    ELSE LET r == update_user(w, user, user.upload_type, user.only_lms, ex) IN
         IF r.exc # "none" THEN id_except(r.w, user, f, r.exc, next)
         ELSE Step(r.w, f, next)

\* the except clauses of the our_student search, lines 1634-1676
our_except(w, user, f, exc) ==
    IF exc \in {"NetworkError", "TimeoutError"}
    THEN IF f.lk_retries = 0
         THEN Step(w, [f EXCEPT !.lk_retries = 1], "lookup")
         ELSE Step(add_failed(w, user, "No corresponding user information",
                              user.upload_type), f, "end")
    ELSE LET w1 == system_error(w, "An exception occurred while doing lookup") IN
         IF reason_bound(user)
         THEN Step(add_failed(w1, user, "A lookup error occurred", user.upload_type),
                   f, "end")
         ELSE Step(w1, f, "raise")

OurSearchEnvs == SearchEnvs \cup {[exc |-> "none", n |-> ExcessiveProfiles + 1]}

\* lines 1567-1633
our_search(w, user, f, found) ==
    IF found.exc # "none" THEN our_except(w, user, f, found.exc)
    ELSE IF found.n = 0
    THEN Step(add_failed(w, user, "No corresponding user information",
                         user.upload_type), f, "end")
    ELSE IF found.n <= 10
    THEN Step(w, [f EXCEPT !.amount = found.n, !.index = 0], "our_cand")
    ELSE Step(add_failed(w, user, "excessive user profiles", user.upload_type),
              f, "end")

\* lines 1609-1619: one turn of the loop, and the reset after the last
our_candidate(w, user, f, prof, ex) ==
    LET turn(r) ==
            IF r.exc # "none" THEN our_except(r.w, user, f, r.exc)
            ELSE IF f.index + 1 = f.amount
            THEN Step([r.w EXCEPT !.tc.match_user_url = FALSE], f, "end")
            ELSE Step(r.w, [f EXCEPT !.index = @ + 1], "our_cand")
    IN  turn(IF w.tc.match_user_url THEN Ok(w)
             ELSE check_match(w, user, prof, f.amount, f.index, user.upload_type,
                              user.only_lms, ex))

\* lines 1789-1797, and the same at the end of a batch
teardown(t) == [t EXCEPT !.page = FALSE, !.browser = FALSE, !.logged_in = FALSE]

\* run_queue_item around do_lookup, lines 1776-1799, and do_lookup's last
\* line 1678; spent is the number of failures the step has met
Resume(r, spent) ==
    CASE r.f.pc = "raise" ->
            \E closed \in CloseEnvs(r.w.tc, spent) :
               IF closed = "closed"
               THEN /\ SetWorld([r.w EXCEPT !.tc = teardown(@)])
                    /\ stack' = Append([stack EXCEPT ![Len(stack)] =
                                            [r.f EXCEPT !.pc = "final"]],
                                       Frame(r.f.retries + 1))
                    /\ hq' = hq
                    /\ budget' = [budget EXCEPT !.portal = @ - spent]
               ELSE /\ Propagate(r.w)
                    /\ budget' = [budget EXCEPT !.portal = @ - (spent + 1)]
      [] r.f.pc = "return" ->
            /\ SetWorld(r.w)
            /\ SetTop([r.f EXCEPT !.pc = "final"])
            /\ hq' = hq
            /\ budget' = [budget EXCEPT !.portal = @ - spent]
      [] r.f.pc = "end" ->
            /\ SetWorld([r.w EXCEPT !.tc.match_user_url = FALSE])
            /\ SetTop([r.f EXCEPT !.pc = "final"])
            /\ hq' = hq
            /\ budget' = [budget EXCEPT !.portal = @ - spent]
      [] OTHER ->
            /\ SetWorld(r.w)
            /\ SetTop(r.f)
            /\ hq' = hq
            /\ budget' = [budget EXCEPT !.portal = @ - spent]

\* run_queue_item, lines 1801-1881: the block of the last unit of a batch
final_block(w, user, closed) ==
    IF user.position # user.max THEN Ok(w)
    ELSE LET failed_users == w.tc.users
             w1 == IF user.upload_type # "certificate" THEN w
                   ELSE IF user.file_name
                   THEN send_email(w, "certificate_failed", w.tc.email, failed_users)
                   ELSE system_error(w, "Final retry reached while doing lookup")
             w2 == IF user.upload_type \in StudentTypes
                   THEN send_email(w1, "student_failed", w1.tc.email, failed_users)
                   ELSE w1
             w3 == IF user.upload_type = "update_user" /\ ~w2.tc.match_user_url
                   THEN send_email(w2, "expedited", w2.tc.email,
                                   <<[bid |-> user.bid, position |-> user.position,
                                      reason |-> "No corresponding user information"]>>)
                   ELSE w2
             w4 == [w3 EXCEPT !.tc.email = "", !.tc.match_user_url = FALSE,
                              !.tc.users = <<>>]
         IN  IF closed = "closed" THEN Ok([w4 EXCEPT !.tc = teardown(@)])
             ELSE Raise(w4, closed)

\* what the profile page of one candidate shows for the unit: both fields
\* in the portal's format, one field, none, a blank birth date, or the page
\* fails to open
OtherPhone == <<"9", "9">>
OtherEmail == <<"z", "@">>
PortalPhone(user) == <<"(">> \o user.phone_number \o <<")">>
PortalEmail(user) == [i \in 1..Len(user.email) |->
                         IF user.email[i] = "a" THEN "A" ELSE user.email[i]]
OtherBirth == [fmt |-> "mdY_slash", day |-> 9]
ProfilesFor(user) ==
    { [load |-> "ok", phone |-> PortalPhone(user), email |-> PortalEmail(user),
       birth |-> NoDate],
      [load |-> "ok", phone |-> OtherPhone, email |-> PortalEmail(user),
       birth |-> OtherBirth],
      [load |-> "ok", phone |-> OtherPhone, email |-> PortalEmail(user),
       birth |-> NoDate],
      [load |-> "ok", phone |-> OtherPhone, email |-> OtherEmail,
       birth |-> OtherBirth],
      [load |-> "TimeoutError", phone |-> NoText, email |-> NoText, birth |-> NoDate],
      [load |-> "Error", phone |-> NoText, email |-> NoText, birth |-> NoDate] }

\* only the first MaxCand candidates of a result page are of interest: the
\* profiles after them match in no field.  A turn of the loop for such a
\* profile before the last one changes nothing but the index, so the turns
\* for them are taken in one step, which is the turn for the last one
Stranger == [load |-> "ok", phone |-> OtherPhone, email |-> OtherEmail,
             birth |-> OtherBirth]

our_strangers(w, user, f) ==
    our_candidate(w, user, [f EXCEPT !.index = f.amount - 1], Stranger, ExOk)

(***************************************************************************)
(* The portal, the browser and the database misbehave a bounded number of  *)
(* times in one behaviour: budget.login launch-or-login exceptions and     *)
(* budget.portal failures of a search, a profile page or an executor step. *)
(* With budget.kinds = "Error" the portal fails in one way only: a page    *)
(* operation raises an exception that is neither a TimeoutError nor a      *)
(* NetworkError.                                                           *)
(***************************************************************************)
Healthy(ex) == ex \in {ExOk, [ExOk EXCEPT !.link = TRUE]}
ExecCost(ex) == IF Healthy(ex) THEN 0 ELSE 1
ProfCost(prof) == IF prof.load = "ok" THEN 0 ELSE 1
ExcCost(exc) == IF exc = "none" THEN 0 ELSE 1
Kind(exc) == budget.kinds = "any" \/ exc \in {"none", "ok", "Error"}
KindEx(ex) == budget.kinds = "any" \/ Healthy(ex) \/ ex = [ExOk EXCEPT !.nav = "Error"]
\* the answers that the step can meet: a profile page is opened only while
\* no profile is accepted, an executor runs only on an accepted profile
Opened(prof) == ~tc.match_user_url \/ prof.load = "ok"
Reached(user, prof, ex) ==
    \/ ex = ExOk
    \/ /\ ~tc.match_user_url
       /\ prof.load = "ok"
       /\ count_matches(user, prof) \notin {ValueError, 0}

\* the step may still meet n failures
Spend(n) == budget.portal >= n

\* observation: the loops of lines 1358-1368 and 1609-1618 invoke check_match
\* on the candidate when no profile is accepted yet
Invoked(checked) ==
    IF ~tc.match_user_url /\ Top.amount > checked THEN Top.amount ELSE checked
Noted(r) == [r EXCEPT !.w.obs.checked = Invoked(@)]

DoLookupStart ==
    /\ Running("lookup")
    /\ Resume(do_lookup_start(World, user_json, Top), 0)
    /\ UNCHANGED probe

DoLookupNameSearch ==
    /\ Running("name")
    /\ \E found \in SearchEnvs :
           /\ Kind(found.exc)
           /\ Spend(ExcCost(found.exc))
           /\ Resume(name_search([World EXCEPT !.obs.accepted = FALSE,
                                               !.obs.nomatch = NoNoMatch],
                                 user_json, Top, found), ExcCost(found.exc))
    /\ UNCHANGED probe

DoLookupNameCandidate ==
    /\ Running("name_cand")
    /\ \E prof \in ProfilesFor(user_json), ex \in ExecEnvs :
           /\ Opened(prof)
           /\ Reached(user_json, prof, ex)
           /\ Kind(prof.load) /\ KindEx(ex)
           /\ Spend(ProfCost(prof) + ExecCost(ex))
           /\ LET seen(r) == [r EXCEPT !.w.obs.accepted =
                                  @ \/ (~tc.match_user_url /\ r.w.tc.match_user_url),
                                        !.w.obs.checked = Invoked(@)]
              IN  Resume(seen(name_candidate(World, user_json, Top, prof, ex)),
                         ProfCost(prof) + ExecCost(ex))
    /\ UNCHANGED probe

DoLookupNameNoMatch ==
    /\ Running("name_nomatch")
    /\ \E ex \in ExecEnvs :
           /\ ex = ExOk \/ (user_json.upload_type \in StudentTypes /\ ~tc.match_user_url)
           /\ KindEx(ex)
           /\ Spend(ExecCost(ex))
           /\ LET seen(r) ==
                      [r EXCEPT !.w.obs.nomatch =
                          [state |-> "done",
                           accepted |-> obs.accepted,
                           created |-> r.w.obs.execs > obs.execs,
                           recorded |-> /\ Len(r.w.tc.users) > Len(tc.users)
                                        /\ r.w.tc.users[Len(r.w.tc.users)].reason =
                                               "No corresponding user information",
                           execs |-> r.w.obs.execs]]
              IN  Resume(seen(name_nomatch(World, user_json, Top, ex)), ExecCost(ex))
    /\ UNCHANGED probe

DoLookupSstid ==
    /\ Running("sstid")
    /\ \E exc \in ExcClasses \cup {"none"}, ex \in ExecEnvs :
           /\ ex = ExOk \/ exc = "none"
           /\ Kind(exc) /\ KindEx(ex)
           /\ Spend(ExcCost(exc) + ExecCost(ex))
           /\ Resume(id_lookup(World, user_json, Top, exc, ex, after_sstid(user_json)),
                     ExcCost(exc) + ExecCost(ex))
    /\ UNCHANGED probe

DoLookupOsha ==
    /\ Running("osha")
    /\ \E exc \in ExcClasses \cup {"none"}, ex \in ExecEnvs :
           /\ ex = ExOk \/ exc = "none"
           /\ Kind(exc) /\ KindEx(ex)
           /\ Spend(ExcCost(exc) + ExecCost(ex))
           /\ Resume(id_lookup(World, user_json, Top, exc, ex, after_osha(user_json)),
                     ExcCost(exc) + ExecCost(ex))
    /\ UNCHANGED probe

DoLookupOurSearch ==
    /\ Running("our")
    /\ \E found \in OurSearchEnvs :
           /\ Kind(found.exc)
           /\ Spend(ExcCost(found.exc))
           /\ Resume(our_search(World, user_json, Top, found), ExcCost(found.exc))
    /\ UNCHANGED probe

DoLookupOurCandidate ==
    /\ Running("our_cand")
    /\ IF Top.index >= MaxCand
       THEN Resume(Noted(our_strangers(World, user_json, Top)), 0)
       ELSE \E prof \in ProfilesFor(user_json), ex \in ExecEnvs :
            /\ Opened(prof)
            /\ Reached(user_json, prof, ex)
            /\ Kind(prof.load) /\ KindEx(ex)
            /\ Spend(ProfCost(prof) + ExecCost(ex))
            /\ Resume(Noted(our_candidate(World, user_json, Top, prof, ex)),
                      ProfCost(prof) + ExecCost(ex))
    /\ UNCHANGED probe

\* run_queue_item, lines 1801-1883
run_queue_item_final ==
    /\ Running("final")
    /\ \E closed \in CloseEnvs(tc, 0) :
          /\ closed = "closed" \/ user_json.position = user_json.max
          /\ LET leave(r) ==
                     IF r.exc = "none"
                     THEN SetWorld(r.w) /\ Return /\ UNCHANGED budget
                     ELSE Propagate(r.w) /\ budget' = [budget EXCEPT !.portal = @ - 1]
             IN  leave(final_block(World, user_json, closed))
    /\ UNCHANGED probe

Next ==
    \/ ImportCertificates
    \/ ImportStudents
    \/ HandleQueuePoll
    \/ run_queue_task_item
    \/ run_queue_task_done
    \/ run_queue_item_enter
    \/ run_queue_item_login
    \/ DoLookupStart
    \/ DoLookupNameSearch
    \/ DoLookupNameCandidate
    \/ DoLookupNameNoMatch
    \/ DoLookupSstid
    \/ DoLookupOsha
    \/ DoLookupOurSearch
    \/ DoLookupOurCandidate
    \/ run_queue_item_final

Spec == Init /\ [][Next]_vars

(***************************************************************************)
(* The process stops and is started again (app.py startup: a new           *)
(* TrainingConnect object, start_system).  The store, the database and the *)
(* portal keep their state; the object and its coroutine do not.           *)
(***************************************************************************)
ProcessRestart ==
    /\ budget.restarts > 0
    /\ budget' = [budget EXCEPT !.restarts = @ - 1]
    /\ tc' = InitTc
    /\ hq' = Idle
    /\ stack' = <<>>
    /\ obs' = [obs EXCEPT !.in_flight = {}]
    /\ UNCHANGED <<lms, portal, redis_list, outbox, probe>>

InitRestart ==
    InitWith([pushes |-> MaxPush, login |-> 0, portal |-> 0, restarts |-> MaxRestarts,
              kinds |-> "any"])

NextRestart == Next \/ ProcessRestart

SpecRestart == InitRestart /\ [][NextRestart]_vars

(***************************************************************************)
(* The retries of one unit: a sheet of two rows with a card ID has been    *)
(* imported, and the portal fails more often.                              *)
(***************************************************************************)
RetrySheet ==
    << CertRow("ann", "c1", TRUE, FALSE, FALSE), CertRow("ann", "c3", TRUE, FALSE, FALSE) >>

InitSheet(sheet, b) ==
    /\ tc = InitTc
    /\ lms = [users |-> LmsUsers, certs |-> {}, updated |-> {}]
    /\ portal = [students |-> {}, certs |-> {}, provider |-> {}]
    /\ redis_list = <<[bid |-> 1, units |-> import_certificates(sheet, FALSE, 1)]>>
    /\ outbox = <<>>
    /\ obs = [InitObs EXCEPT !.bids = 1]
    /\ hq = Idle
    /\ stack = <<>>
    /\ budget = b
    /\ probe = NoProbe

InitRetry ==
    InitSheet(RetrySheet, [pushes |-> 0, login |-> MaxLoginFaults,
                           portal |-> MaxRetryFaults, restarts |-> 0,
                           kinds |-> "any"])

NextRetry ==
    \/ HandleQueuePoll
    \/ run_queue_task_item
    \/ run_queue_task_done
    \/ run_queue_item_enter
    \/ run_queue_item_login
    \/ DoLookupStart
    \/ DoLookupSstid
    \/ run_queue_item_final

SpecRetry == InitRetry /\ [][NextRetry]_vars

(***************************************************************************)
(* The unit after a unit whose retries were used up: a sheet whose first   *)
(* row is searched among our students and whose second row is searched by  *)
(* name has been imported.                                                 *)
(***************************************************************************)
StaleSheet ==
    << CertRow("ann", "c1", FALSE, FALSE, TRUE), CertRow("ann", "c3", FALSE, FALSE, FALSE) >>

InitStale ==
    InitSheet(StaleSheet, [pushes |-> 0, login |-> 0, portal |-> MaxRetryFaults,
                           restarts |-> 0, kinds |-> "Error"])

NextStale ==
    \/ HandleQueuePoll
    \/ run_queue_task_item
    \/ run_queue_task_done
    \/ run_queue_item_enter
    \/ run_queue_item_login
    \/ DoLookupStart
    \/ DoLookupNameSearch
    \/ DoLookupNameCandidate
    \/ DoLookupNameNoMatch
    \/ DoLookupOurSearch
    \/ DoLookupOurCandidate
    \/ run_queue_item_final

SpecStale == InitStale /\ [][NextStale]_vars

(***************************************************************************)
(* Two batches of one update_user unit each, as generate_cert builds them  *)
(* for a user it has created, are in the store.                            *)
(***************************************************************************)
\* training_connect.py generate_cert, lines 279-296
generate_cert_batch(p, bid) ==
    << [Unit(p, "update_user") EXCEPT !.bid = bid, !.user_id = p] >>

InitUpdate ==
    /\ tc = InitTc
    /\ lms = [users |-> LmsUsers, certs |-> {}, updated |-> {}]
    /\ portal = [students |-> {}, certs |-> {}, provider |-> {}]
    /\ redis_list = <<[bid |-> 1, units |-> generate_cert_batch("ann", 1)],
                      [bid |-> 2, units |-> generate_cert_batch("bob", 2)]>>
    /\ outbox = <<>>
    /\ obs = [InitObs EXCEPT !.bids = 2]
    /\ hq = Idle
    /\ stack = <<>>
    /\ budget = [pushes |-> 0, login |-> 0, portal |-> MaxPortalFaults,
                 restarts |-> 0, kinds |-> "any"]
    /\ probe = NoProbe

NextUpdate ==
    \/ HandleQueuePoll
    \/ run_queue_task_item
    \/ run_queue_task_done
    \/ run_queue_item_enter
    \/ run_queue_item_login
    \/ DoLookupStart
    \/ DoLookupNameSearch
    \/ DoLookupNameCandidate
    \/ DoLookupNameNoMatch
    \/ run_queue_item_final

SpecUpdate == InitUpdate /\ [][NextUpdate]_vars

(***************************************************************************)
(* check_match alone: a session is open, a unit and the profile page of    *)
(* one candidate are given, check_match is called once.                    *)
(***************************************************************************)
MatchUnits ==
    { [Unit("ann", type) EXCEPT !.user_id = "ann", !.certificate_id = "c1",
                                !.phone_number = ph, !.email = em,
                                !.date_of_birth = dob] :
        type \in {"certificate", "student"},
        ph \in {NoText, <<"1", "2">>, <<"0", "1">>},
        em \in {NoText, <<"a", "@">>},
        dob \in {NoDate, [fmt |-> "Ymd_HMS", day |-> 1], [fmt |-> "mdY_slash", day |-> 1]} }

MatchProfiles ==
    { [load |-> "ok", phone |-> ph, email |-> em, birth |-> bi] :
        ph \in {NoText, <<"(", "1", ")", "2">>, <<"0", "1">>, <<"9", "9">>},
        em \in {NoText, <<"A", "@">>, <<"z", "@">>},
        bi \in {NoDate, [fmt |-> "mdY_slash", day |-> 1], [fmt |-> "mdY_slash", day |-> 9]} }

MatchAmounts == {1, MaxCand + 1}

InitMatch ==
    /\ tc = [InitTc EXCEPT !.page = TRUE, !.browser = TRUE, !.logged_in = TRUE]
    /\ lms = [users |-> LmsUsers, certs |-> {}, updated |-> {}]
    /\ portal = [students |-> {}, certs |-> {}, provider |-> {}]
    /\ redis_list = <<>>
    /\ outbox = <<>>
    /\ obs = InitObs
    /\ hq = Idle
    /\ stack = <<>>
    /\ budget = [pushes |-> 0, login |-> 0, portal |-> 0, restarts |-> 0,
                 kinds |-> "any"]
    /\ \E user \in MatchUnits, prof \in MatchProfiles, amount \in MatchAmounts :
          probe = [state |-> "input", user |-> user, prof |-> prof, amount |-> amount,
                   accepted |-> FALSE]

CheckMatch ==
    /\ probe.state = "input"
    /\ LET r == check_match(World, probe.user, probe.prof, probe.amount, 0,
                            probe.user.upload_type, probe.user.only_lms, ExOk)
       IN  /\ SetWorld(r.w)
           /\ probe' = [probe EXCEPT !.state = "done",
                                     !.accepted = r.w.tc.match_user_url]
    /\ UNCHANGED <<hq, stack, budget>>

NextMatch == CheckMatch

SpecMatch == InitMatch /\ [][NextMatch]_vars

(***************************************************************************)
(* create_student alone: a session is open, create_student is called once  *)
(* for a student with any subset of the required keys.                     *)
(***************************************************************************)
CreateUnits ==
    { [Unit("bob", type) EXCEPT !.bid = 1, !.user_id = "bob", !.dob = DobOf("bob"),
                                !.has = h, !.phone_number = ph] :
        type \in StudentTypes, h \in SUBSET StudentFields,
        ph \in {NoText, PhoneOf("bob")} }

InitCreate ==
    /\ tc = [InitTc EXCEPT !.page = TRUE, !.browser = TRUE, !.logged_in = TRUE]
    /\ lms = [users |-> LmsUsers \cup {"bob"}, certs |-> {}, updated |-> {}]
    /\ portal = [students |-> {}, certs |-> {}, provider |-> {}]
    /\ redis_list = <<>>
    /\ outbox = <<>>
    /\ obs = InitObs
    /\ hq = Idle
    /\ stack = <<>>
    /\ budget = [pushes |-> 0, login |-> 0, portal |-> 0, restarts |-> 0,
                 kinds |-> "any"]
    /\ \E user \in CreateUnits : probe = [state |-> "input", user |-> user]

CreateStudent ==
    /\ probe.state = "input"
    /\ \E ex \in ExecEnvs :
           SetWorld(create_student(World, probe.user, probe.user.upload_type, ex))
    /\ probe' = [probe EXCEPT !.state = "done"]
    /\ UNCHANGED <<hq, stack, budget>>

NextCreate == CreateStudent

SpecCreate == InitCreate /\ [][NextCreate]_vars

(***************************************************************************)
(* The address parser of check_match alone: the regular expression of      *)
(* lines 1088-1090 is matched against one address line.  A line is the     *)
(* sequence of its characters.                                             *)
(***************************************************************************)
Letters == {"A", "B", "C", "D", "E", "F", "G", "H", "I", "J", "K", "L", "M", "N", "O", "P", "Q", "R", "S", "T", "U", "V", "W", "X", "Y", "Z",
            "a", "b", "c", "d", "e", "f", "g", "h", "i", "j", "k", "l", "m", "n", "o", "p", "q", "r", "s", "t", "u", "v", "w", "x", "y", "z"}

\* the end of the longest run of characters of one class that starts at i
\* (i - 1 when the run is empty): a greedy quantifier that cannot give back
RunEnd(s, i, class) ==
    CHOOSE j \in (i - 1)..Len(s) :
        /\ \A k \in i..j : s[k] \in class
        /\ j = Len(s) \/ s[j + 1] \notin class

\* \s*(?P<state>[A-Za-z]+)\s*(?P<zipcode>\d+) matched at i: the three classes
\* are disjoint, so every run is taken whole
state_zipcode(s, i) ==
    LET Spaces == {" "}
        zip(c) == [ok |-> RunEnd(s, c + 1, Digits) > c,
                   from |-> c + 1, to |-> RunEnd(s, c + 1, Digits)]
        st(a) == [ok |-> RunEnd(s, a + 1, Letters) > a,
                  from |-> a + 1, to |-> RunEnd(s, a + 1, Letters),
                  zip |-> zip(RunEnd(s, RunEnd(s, a + 1, Letters) + 1, Spaces))]
    IN  st(RunEnd(s, i, Spaces))

\* the ways (?P<address>.*),\s*(?P<city>[^\d]+) followed by state and zipcode
\* can match: the comma at k, the city from p to e
address_matches(s) ==
    { m \in [k : 1..Len(s), p : 1..Len(s), e : 1..Len(s)] :
        /\ s[m.k] = ","
        /\ m.k < m.p /\ m.p <= m.e
        /\ \A j \in (m.k + 1)..(m.p - 1) : s[j] = " "
        /\ \A j \in m.p..m.e : s[j] \notin Digits
        /\ state_zipcode(s, m.e + 1).ok
        /\ state_zipcode(s, m.e + 1).zip.ok }

\* check_match, lines 1088-1097: the groups, or the line left as it is.
\* Before: the match the backtracking finds first; the quantifiers are
\* greedy, so the address is the longest, then the blanks, then the city.
parse_address(s) ==
    LET Before(m, n) ==
            \/ m.k > n.k
            \/ m.k = n.k /\ m.p > n.p
            \/ m.k = n.k /\ m.p = n.p /\ m.e >= n.e
        groups(m, t) ==
            [matched |-> TRUE,
             address |-> SubSeq(s, 1, m.k - 1),
             city |-> SubSeq(s, m.p, m.e),
             state |-> SubSeq(s, t.from, t.to),
             zipcode |-> SubSeq(s, t.zip.from, t.zip.to)]
        first(M) ==
            IF M = {}
            THEN [matched |-> FALSE, address |-> s, city |-> <<>>, state |-> <<>>,
                  zipcode |-> <<>>]
            ELSE LET best(m) == groups(m, state_zipcode(s, m.e + 1))
                 IN  best(CHOOSE m \in M : \A n \in M : Before(m, n))
    IN  first(address_matches(s))

\* the address lines a profile page may show
AddressLines ==
    LET Streets == { <<"1", "2", "3", " ", "M", "a", "i", "n", " ", "S", "t">>,
                     <<"5", " ", "E", "l", "m">>,
                     <<"9", " ", "A", ",", " ", "B">> }
        Cities == { <<"S", "p", "r", "i", "n", "g", "f", "i", "e", "l", "d">>,
                    <<"N", "e", "w", " ", "Y", "o", "r", "k">>,
                    <<"T", "r", "o", "y">> }
        States == { <<"N", "Y">>, <<"N">>, <<"n", "j">> }
        Zipcodes == { <<"1", "0", "0", "0", "1">>, <<"7">> }
        Gaps == { <<" ">>, <<",", " ">>, <<>> }
    IN  { street \o <<",", " ">> \o city \o gap \o state \o <<" ">> \o zipcode :
            street \in Streets, city \in Cities, gap \in Gaps, state \in States,
            zipcode \in Zipcodes }

InitAddress ==
    /\ tc = [InitTc EXCEPT !.page = TRUE, !.browser = TRUE, !.logged_in = TRUE]
    /\ lms = [users |-> LmsUsers, certs |-> {}, updated |-> {}]
    /\ portal = [students |-> {}, certs |-> {}, provider |-> {}]
    /\ redis_list = <<>>
    /\ outbox = <<>>
    /\ obs = InitObs
    /\ hq = Idle
    /\ stack = <<>>
    /\ budget = [pushes |-> 0, login |-> 0, portal |-> 0, restarts |-> 0,
                 kinds |-> "any"]
    /\ \E line \in AddressLines : probe = [state |-> "line", line |-> line]

ParseAddress ==
    /\ probe.state = "line"
    /\ probe' = [state |-> "parsed", line |-> probe.line,
                 url_data |-> parse_address(probe.line)]
    /\ UNCHANGED <<tc, lms, portal, redis_list, outbox, obs, hq, stack, budget>>

NextAddress == ParseAddress

SpecAddress == InitAddress /\ [][NextAddress]_vars

(***************************************************************************)
(* redis_rpush and redis_lpop alone: one call, given what the store answers *)
(* to the pings, to the connection attempts and to the list operation.     *)
(*   redis      self.redis: "none" or "conn"                               *)
(*   pings      the answers of the next pings: "true", "false", "raise"    *)
(*   connects   the results of the next redis_connection calls             *)
(*   ops        the answers of the next list operations: "ok", "raise"     *)
(***************************************************************************)
MaxPings == 4
MaxConnects == 2
MaxOps == 2

Seqs(S, n) == [1..n -> S]

\* training_connect.py redis_check, lines 2046-2054
redis_check(e) ==
    LET reconnect(e1) == [e1 EXCEPT !.redis = Head(e1.connects),
                                    !.connects = Tail(@),
                                    !.reconnects = @ + 1]
        pinged(e1) == [e1 EXCEPT !.pings = Tail(@)]
        \* return self.redis and await self.redis.ping()
        last(e1) == IF e1.redis = "none" THEN [e |-> e1, ok |-> FALSE]
                    ELSE [e |-> pinged(e1), ok |-> Head(e1.pings) = "true"]
    IN  IF e.redis = "none" THEN last(reconnect(e))
        ELSE IF Head(e.pings) = "raise" THEN [e |-> pinged(e), ok |-> FALSE]
        ELSE IF Head(e.pings) = "false" THEN last(reconnect(pinged(e)))
        ELSE last(pinged(e))

\* the body shared by redis_rpush (2056-2069) and redis_lpop (2071-2084):
\* the call with retries = 0 made from the except clause
redis_list_op_again(e) ==
    LET run(c) ==
            IF ~c.ok THEN [e |-> c.e, ok |-> FALSE]
            ELSE [e |-> [c.e EXCEPT !.ops = Tail(@), !.tried = @ + 1],
                  ok |-> Head(c.e.ops) = "ok"]
    IN  run(redis_check(e))

\* the call with retries = 1
redis_list_op(e) ==
    LET run(c) ==
            IF ~c.ok THEN [e |-> c.e, ok |-> FALSE]
            ELSE IF Head(c.e.ops) = "ok"
            THEN [e |-> [c.e EXCEPT !.ops = Tail(@), !.tried = @ + 1], ok |-> TRUE]
            ELSE redis_list_op_again([c.e EXCEPT !.ops = Tail(@), !.tried = @ + 1])
    IN  run(redis_check(e))

InitRedis ==
    /\ tc = InitTc
    /\ lms = [users |-> LmsUsers, certs |-> {}, updated |-> {}]
    /\ portal = [students |-> {}, certs |-> {}, provider |-> {}]
    /\ redis_list = <<>>
    /\ outbox = <<>>
    /\ obs = InitObs
    /\ hq = Idle
    /\ stack = <<>>
    /\ budget = [pushes |-> 0, login |-> 0, portal |-> 0, restarts |-> 0,
                 kinds |-> "any"]
    /\ \E redis \in {"none", "conn"},
          pings \in Seqs({"true", "false", "raise"}, MaxPings),
          connects \in Seqs({"none", "conn"}, MaxConnects),
          ops \in Seqs({"ok", "raise"}, MaxOps) :
          probe = [state |-> "call", ok |-> FALSE,
                   e |-> [redis |-> redis, pings |-> pings, connects |-> connects,
                          ops |-> ops, reconnects |-> 0, tried |-> 0]]

RedisCall ==
    /\ probe.state = "call"
    /\ LET returned(r) == probe' = [state |-> "returned", ok |-> r.ok, e |-> r.e]
       IN  returned(redis_list_op(probe.e))
    /\ UNCHANGED <<tc, lms, portal, redis_list, outbox, obs, hq, stack, budget>>

NextRedis == RedisCall

SpecRedis == InitRedis /\ [][NextRedis]_vars

(***************************************************************************)
(* Properties                                                              *)
(***************************************************************************)

\* C1: at most one batch is in flight in every reachable state: no batch is
\* popped and no run_queue_task starts while an earlier batch is unfinished,
\* and queue_running is true whenever a batch is being processed.
C1_OneBatchInFlight ==
    /\ Cardinality(obs.in_flight) <= 1
    /\ (hq.pc = "task") = (obs.in_flight = {hq.bid} /\ obs.in_flight # {})
    /\ obs.in_flight # {} => tc.queue_running
    /\ stack # <<>> => hq.pc = "task"

\* a batch is being processed while another one waits in the list
C1_Witness ==
    /\ hq.pc = "task"
    /\ stack # <<>>
    /\ tc.queue_running
    /\ redis_list # <<>>

\* C2: per-unit failures never abort the batch: whatever happened to the
\* earlier units, run_queue_task hands every later unit of the popped batch
\* to run_queue_item, and the batch ends only after all of them were handed.
C2_Handed ==
    hq.pc = "task" =>
        /\ hq.i <= Len(hq.uploads) + 1
        /\ obs.started = [k \in 1..(IF stack = <<>> THEN hq.i - 1 ELSE hq.i) |->
                             hq.uploads[k].position]
C2_EveryUnitHanded ==
    /\ C2_Handed
    /\ obs.unhanded = 0

\* the first unit left a failure record and a system error, and the second
\* unit was handed to run_queue_item
C2_Witness ==
    /\ hq.pc = "task"
    /\ Len(obs.started) = 2
    /\ tc.system_errors # <<>>
    /\ \E k \in 1..Len(tc.users) :
          tc.users[k].bid = hq.bid /\ tc.users[k].position = hq.uploads[1].position

\* C4: across the recursive run_queue_item calls and the search strategies
\* of do_lookup, the executor of one unit (create_student, add_certificate
\* or run_database_update) runs at most once before run_queue_item returns
\* for that unit.
C4_ExecutorAtMostOnce == obs.execs <= 1

\* C5: once create_browser_and_login has returned False in a batch, a
\* SystemErrorRecord is recorded and the rest of the batch is abandoned: no
\* search of do_lookup and no executor runs for the current unit or a later
\* one.
SearchPlaces == {"name", "name_cand", "name_nomatch", "sstid", "osha", "our", "our_cand"}
C5_BatchAbandoned ==
    (hq.pc = "task" /\ obs.exhausted) =>
        /\ tc.system_errors # <<>>
        /\ stack # <<>> => Top.pc \notin SearchPlaces

\* C6: whenever create_browser_and_login returns True, the page is not None
\* and logged_in is True, whatever login() did.
C6_TrueMeansAuthenticated ==
    obs.cbl.result = "True" => obs.cbl.page /\ obs.cbl.logged_in

\* C7: a call of create_browser_and_login in which no attempt authenticates
\* makes exactly 5 attempts with a backoff between them, returns False and
\* records one SystemErrorRecord, however the attempts fail.
C7_ExactlyFiveAttempts ==
    (obs.cbl.result # "none" /\ ~obs.cbl.authenticated) =>
        /\ obs.cbl.result = "False"
        /\ obs.cbl.attempts = LoginRetries
        /\ obs.cbl.sleeps >= LoginRetries - 1
        /\ obs.cbl.errors = 1

\* C3: a batch that was pushed is never lost: it waits in the list, is held
\* by the worker that processes it, or has been processed, also when the
\* process stopped after redis_lpop returned it and was started again.
C3_NoBatchLost ==
    \A b \in 1..obs.bids :
        \/ b \in obs.done
        \/ hq.pc = "task" /\ hq.bid = b
        \/ \E k \in 1..Len(redis_list) : redis_list[k].bid = b

\* C9: check_match accepts the candidate if and only if at least 2 of the
\* fields phone, email and birth date are equal after normalization (digits
\* of the phone, lower-case email, calendar date of the birth date; a field
\* absent on either side is not equal), or at least 1 is equal and the
\* search returned exactly one candidate.
EqualPhone(user, prof) ==
    /\ user.phone_number # NoText
    /\ prof.phone # NoText
    /\ Filter(user.phone_number, Digits) = Filter(prof.phone, Digits)
EqualEmail(user, prof) ==
    /\ user.email # NoText
    /\ prof.email # NoText
    /\ Lower(user.email) = Lower(prof.email)
EqualBirth(user, prof) ==
    /\ user.date_of_birth # NoDate
    /\ prof.birth # NoDate
    /\ user.date_of_birth.day = prof.birth.day
EqualFields(user, prof) ==
    (IF EqualPhone(user, prof) THEN 1 ELSE 0) + (IF EqualEmail(user, prof) THEN 1 ELSE 0)
        + (IF EqualBirth(user, prof) THEN 1 ELSE 0)
C9_AcceptIff ==
    probe.state = "done" =>
        (probe.accepted <=>
            \/ EqualFields(probe.user, probe.prof) >= 2
            \/ EqualFields(probe.user, probe.prof) >= 1 /\ probe.amount = 1)

\* C8: processing of one unit is attempted at most 5 times (the first
\* attempt and the retries after a session failure or a lookup exception),
\* and the calls of run_queue_item for one unit nest at most 5 deep.
C8_AtMostFiveAttempts ==
    /\ obs.attempts <= ItemRetries
    /\ Len(stack) <= ItemRetries

\* C10: when the search by name ends with no accepted candidate, do_lookup
\* handles the unit as not found: create_student is invoked for student and
\* upload_user units; for every other type the failure "no corresponding
\* user" is recorded and no executor runs.
C10_NoMatchHandling ==
    (hq.pc = "task" /\ stack # <<>> /\ obs.nomatch.state = "done"
        /\ ~obs.nomatch.accepted) =>
        IF user_json.upload_type \in StudentTypes
        THEN obs.nomatch.created
        ELSE obs.nomatch.recorded /\ obs.execs = obs.nomatch.execs

\* C11: automatic matching is attempted only for 1 to 9 candidates: check_match
\* is never invoked on a candidate of a search (by name or on the dashboard
\* of our_student) that returned 10 or more profiles.
C11_NoMatchingBeyondNine == obs.checked < ExcessiveProfiles

\* C12: a failed local save of add_certificate short-circuits: the call
\* whose tc_save_certificate returned status false performs no interaction
\* with the portal afterwards, whether or not only_lms is set.
C12_FailedSaveShortCircuits ==
    obs.add_cert.saved = "failed" => obs.add_cert.remote = 0

\* C13: a certificate unit with only_lms set is written to the local database
\* only: while it is in progress the worker changes nothing on the portal (no
\* certificate form and no 'Add To Course Provider' submission).
C13_OnlyLmsLeavesPortal ==
    (hq.pc = "task" /\ user_json.upload_type = "certificate" /\ user_json.only_lms)
        => obs.remote = 0

\* C14: a certificate unit with only_lms set and valid fields is written to
\* the local database whatever the lookup on the portal returns; in particular
\* once its search by name has ended with no accepted candidate (no
\* candidate, none accepted, or too many), a local certificate row with its
\* number exists.
C14_OnlyLmsSavedWithoutMatch ==
    (/\ hq.pc = "task" /\ stack # <<>>
     /\ user_json.upload_type = "certificate" /\ user_json.only_lms
     /\ validate_certificate_user(user_json)
     /\ obs.nomatch.state = "done" /\ ~obs.nomatch.accepted)
        => \E c \in lms.certs : c.number = user_json.certificate_id

C17_DuplicateKeepsRows ==
    (hq.pc = "task" /\ obs.add_cert.saved = "failed"
        /\ obs.add_cert.reason = "Certificate Number already in use")
        => obs.certs_before \subseteq lms.certs

\* C18: for every batch the operator receives one notification per non-empty
\* failure category when the last unit finishes, none when no unit of the
\* batch failed, and retries of the last unit add no further email; at most
\* one internal alert is sent for the batch.
C18_EmailsMatchFailures ==
    LET summary(m) == m.kind \in {"certificate_failed", "student_failed"}
        alert(m) == m.kind = "internal_alert"
    IN  /\ \A k \in 1..Len(outbox) : summary(outbox[k]) => outbox[k].failed # <<>>
        /\ Len(SelectSeq(outbox, summary)) <= 1
        /\ Len(SelectSeq(outbox, alert)) <= 1

\* C19: for an update_user batch the notice that the user could not be
\* verified is sent at the end of the batch only if no match was found: when
\* check_match accepted a profile and the local update of the unit ran, the
\* emails of the batch contain no such notice.
C19_NoNoticeAfterMatch ==
    (/\ hq.pc = "task"
     /\ \E k \in 1..Len(outbox) :
            /\ outbox[k].kind = "expedited"
            /\ outbox[k].failed[1].reason = "No corresponding user information")
        => \A i \in 1..Len(hq.uploads) :
               hq.uploads[i].upload_type = "update_user"
                   => hq.uploads[i].user_id \notin lms.updated

\* C20: the system error records of a batch are sent as one internal alert
\* at the end of the batch and then cleared: whenever the worker is idle
\* between batches system_errors is empty, so that no record can appear in
\* the alert of a later batch; an alert always carries the records.
C20_IdleMeansFlushed ==
    /\ hq.pc = "sleep" => tc.system_errors = <<>>
    /\ \A k \in 1..Len(outbox) :
           outbox[k].kind = "internal_alert" => outbox[k].errors # <<>>

\* a batch that recorded system errors has ended: its alert is sent, the
\* worker is idle and the records are cleared
C20_Witness ==
    /\ hq.pc = "sleep" /\ obs.done # {}
    /\ tc.system_errors = <<>>
    /\ \E k \in 1..Len(outbox) :
           outbox[k].kind = "internal_alert" /\ outbox[k].errors # <<>>

\* C21: units start in the order of the queue: batches are taken in the
\* order they were pushed (every batch pushed before the one in progress is
\* finished, every batch still in the list was pushed after it), and the
\* units of the batch in progress are handed to run_queue_item in array
\* order, none of another batch in between.
C21_QueueOrder ==
    /\ \A j \in 1..Len(redis_list), k \in 1..Len(redis_list) :
           j < k => redis_list[j].bid < redis_list[k].bid
    /\ hq.pc = "task" =>
           /\ \A j \in 1..Len(redis_list) : redis_list[j].bid > hq.bid
           /\ \A b \in 1..(hq.bid - 1) : b \in obs.done
           /\ obs.in_flight = {hq.bid}
           /\ Len(obs.started) <= Len(hq.uploads)
           /\ \A k \in 1..Len(obs.started) :
                  obs.started[k] = hq.uploads[k].position

\* the second batch is in progress after the first one has finished, and a
\* batch pushed later waits in the list
C21_Witness ==
    /\ hq.pc = "task" /\ hq.bid = 2 /\ 1 \in obs.done
    /\ obs.started # <<>>
    /\ redis_list # <<>>

\* C22: redis_rpush and redis_lpop re-establish the connection and retry
\* exactly once: whenever a call returns failure, a reconnect was attempted
\* and the list operation was tried a second time, and the operation is
\* never tried more than twice in one call.
C22_ReconnectAndRetryOnce ==
    probe.state = "returned" =>
        /\ probe.e.tried <= 2
        /\ ~probe.ok => (probe.e.reconnects >= 1 /\ probe.e.tried = 2)

\* C23: every teardown of the session leaves logged_in false: in every state
\* without a page logged_in is false, and when the unit with position = max
\* has finished, page and browser are None and logged_in is false.
C23_TeardownLogsOut ==
    /\ ~tc.page => ~tc.logged_in
    /\ (/\ hq.pc = "task" /\ stack = <<>> /\ hq.i > Len(hq.uploads)
        /\ Len(obs.started) = Len(hq.uploads)
        /\ hq.uploads[Len(hq.uploads)].position = hq.uploads[Len(hq.uploads)].max)
           => (~tc.page /\ ~tc.browser /\ ~tc.logged_in)

\* C25: create_student called with a unit that misses one of phone_number,
\* height, eye_color, gender, house_number, street_name, city, state or
\* zipcode records one failure, which names a missing key, and
\* returns without any interaction with the portal in that call.
C25_MissingFieldNoRemote ==
    (/\ probe.state = "done"
     /\ probe.user.phone_number = NoText \/ probe.user.has # StudentFields) =>
        /\ Len(tc.users) = 1
        /\ \/ tc.users[1].reason = "phone_number" /\ probe.user.phone_number = NoText
           \/ tc.users[1].reason \in StudentFields \ probe.user.has
        /\ obs.remote = 0
        /\ portal = [students |-> {}, certs |-> {}, provider |-> {}]

\* create_student has returned for a student that misses the zip code only
C25_Witness ==
    /\ probe.state = "done"
    /\ probe.user.has = StudentFields \ {"zipcode"}
    /\ probe.user.phone_number # NoText
    /\ Len(tc.users) = 1 /\ tc.users[1].reason = "zipcode"

\* C26: for the line "123 Main St, Springfield NY 10001" the address parser
\* of check_match yields address "123 Main St", city "Springfield", state
\* "NY" and zipcode "10001": the whole state token goes to state.
C26_AddressGroups ==
    (/\ probe.state = "parsed"
     /\ probe.line = <<"1", "2", "3", " ", "M", "a", "i", "n", " ", "S", "t", ",", " ", "S", "p", "r", "i", "n", "g", "f", "i", "e", "l", "d", " ", "N", "Y", " ", "1", "0", "0", "0", "1">>)
        => /\ probe.url_data.matched
           /\ probe.url_data.address = <<"1", "2", "3", " ", "M", "a", "i", "n", " ", "S", "t">>
           /\ probe.url_data.city = <<"S", "p", "r", "i", "n", "g", "f", "i", "e", "l", "d">>
           /\ probe.url_data.state = <<"N", "Y">>
           /\ probe.url_data.zipcode = <<"1", "0", "0", "0", "1">>

\* C24: every batch a producer pushes has consistent upload_info: max is
\* the number of units of the pushed array and the positions are 1..max in
\* array order, so that the last unit of the array has position = max.
C24_ConsistentUploadInfo ==
    \A j \in 1..Len(redis_list) :
        LET consistent(units) ==
                \A k \in 1..Len(units) :
                    units[k].max = Len(units) /\ units[k].position = k
        IN  consistent(redis_list[j].units)

\* C27: a certificate row stored by a certificate unit that recorded no
\* failure is still present, with its local user row, when the queue has
\* drained, also after the single-unit student batch that
\* tc_save_certificate pushed when it created the user.
C27_SavedCertificateKept ==
    (hq.pc = "sleep" /\ redis_list = <<>>) =>
        \A c \in obs.kept : c \in lms.certs /\ c.user \in lms.users

\* C28: whenever run_queue_task has returned for a batch, the failure list,
\* the uploader email and match_user_url are empty, so nothing of the batch
\* is left for the notification of the next one.
C28_NoBatchStateLeaks ==
    (hq.pc = "sleep" /\ obs.done # {}) =>
        /\ tc.users = <<>>
        /\ tc.email = ""
        /\ ~tc.match_user_url

\* C29: at most one FailureRecord is recorded for one unit of a batch: no
\* two records of the failure list belong to the same unit.
C29_OneRecordPerUnit ==
    \A j, k \in 1..Len(tc.users) :
        (tc.users[j].bid = tc.users[k].bid
            /\ tc.users[j].position = tc.users[k].position) => j = k

\* C30: the worker loop never stops: no popped batch makes an exception
\* leave handle_queue, so its task never ends and later batches can still
\* be popped.
C30_WorkerNeverStops ==
    hq.pc # "dead"

====
